---------------------------- MODULE Spec2Model ----------------------------
(***************************************************************************)
(* The casting bot (src/bot.py): the intake interview of each submitter,   *)
(* the commit of a finished application into the date tab of the sheet,    *)
(* the manager who edits the Status column, and status_watcher, the loop   *)
(* that relays approved / rejected decisions and stamps NotifiedAt.        *)
(*                                                                         *)
(* A text is a sequence of characters; a character is a one-letter string. *)
(* A character outside ASCII is written by its code point ("U+0434").      *)
(***************************************************************************)
EXTENDS Integers, Sequences, FiniteSets, TLC

(***************************************************************************)
(* Bounds of the model.                                                    *)
(***************************************************************************)
\* how many entries of DATES the model keeps (the first NumDates of them)
NumDates == 2
\* how many submitters talk to the bot
NumUsers == 2
\* rows below the headers the whole spreadsheet may hold
MaxRows == 3
\* decision messages the environment lets one row receive (it bounds the
\* failures of update_cell after a delivered message)
MaxDelivered == 2

(***************************************************************************)
(* CONFIG (src/bot.py 38-87)                                               *)
(***************************************************************************)
AllDates ==
  << <<"1","0",".","0","1",".","2","0","2","6">>,
     <<"1","1",".","0","1",".","2","0","2","6">>,
     <<"1","3",".","0","1",".","2","0","2","6">>,
     <<"1","4",".","0","1",".","2","0","2","6">>,
     <<"1","7",".","0","1",".","2","0","2","6">>,
     <<"1","8",".","0","1",".","2","0","2","6">>,
     <<"2","0",".","0","1",".","2","0","2","6">>,
     <<"2","1",".","0","1",".","2","0","2","6">> >>

DATES == SubSeq(AllDates, 1, NumDates)

TIMES ==
  << <<"1","0",":","2","0">>,
     <<"1","1",":","0","0">>,
     <<"1","1",":","4","0">>,
     <<"1","2",":","3","0">>,
     <<"1","3",":","2","0">> >>

NAMEPRINT_CONST == <<"S","t","a","n","i","s","l","a","v"," ","M","a","s","p","a","n","o","v">>
SHOOTPLACE_CONST == <<"U","k","r","a","i","n","e">>
SHOOTSTATE_CONST == <<"K","y","i","v">>
COUNTRY_CONST == <<"U","k","r","a","i","n","e">>

BASE_HEADER ==
  << <<"N","a","m","e","p","r","i","n","t">>,
     <<"D","a","t","e","S","i","g","n","e","d">>,
     <<"S","h","o","o","t","D","a","t","e">>,
     <<"S","h","o","o","t","P","l","a","c","e">>,
     <<"S","h","o","o","t","S","t","a","t","e">>,
     <<"M","o","d","e","l","N","a","m","e">>,
     <<"D","a","t","e","O","f","B","i","r","t","h">>,
     <<"R","e","s","i","d","e","n","c","e","A","d","d","r","e","s","s">>,
     <<"C","i","t","y">>,
     <<"S","t","a","t","e">>,
     <<"C","o","u","n","t","r","y">>,
     <<"Z","i","p","C","o","d","e">>,
     <<"P","h","o","n","e">>,
     <<"E","m","a","i","l">>,
     <<"G","u","a","r","d","i","a","n","N","a","m","e">>,
     <<"D","a","t","e","S","i","g","n","e","d","e","d">>,
     <<"P","h","o","t","o">> >>

MANAGER_HEADER ==
  << <<"T","e","l","e","g","r","a","m","C","h","a","t","I","d">>,
     <<"S","t","a","t","u","s">>,
     <<"N","o","t","i","f","i","e","d","A","t">> >>

HEADER == BASE_HEADER \o MANAGER_HEADER

STATUS_PENDING == <<"p","e","n","d","i","n","g">>
STATUS_APPROVED == <<"a","p","p","r","o","v","e","d">>
STATUS_REJECTED == <<"r","e","j","e","c","t","e","d">>

\* the column names the code looks up by header
COL_ModelName == <<"M","o","d","e","l","N","a","m","e">>
COL_TelegramChatId == <<"T","e","l","e","g","r","a","m","C","h","a","t","I","d">>
COL_Status == <<"S","t","a","t","u","s">>
COL_NotifiedAt == <<"N","o","t","i","f","i","e","d","A","t">>

(***************************************************************************)
(* Texts: what str.strip, str.lower, re.sub and the regular expressions    *)
(* of the validators do, character by character.                           *)
(***************************************************************************)
EmptyText == <<>>

Digits == {"0","1","2","3","4","5","6","7","8","9"}

UpperLetters ==
  <<"A","B","C","D","E","F","G","H","I","J","K","L","M","N","O","P","Q","R",
    "S","T","U","V","W","X","Y","Z","U+0414","U+0410","U+041B","U+0406","U+0418">>

LowerLetters ==
  <<"a","b","c","d","e","f","g","h","i","j","k","l","m","n","o","p","q","r",
    "s","t","u","v","w","x","y","z","U+0434","U+0430","U+043B","U+0456","U+0438">>

\* [A-Za-z]
AsciiLetters ==
  {UpperLetters[i] : i \in 1..26} \cup {LowerLetters[i] : i \in 1..26}

\* \s
Whitespace == {" ", "\t"}

\* - . ' , / #
EnPunctuation == {"-", ".", "'", ",", "/", "#"}

LowerChar(c) ==
  IF \E i \in 1..Len(UpperLetters) : UpperLetters[i] = c
  THEN LowerLetters[CHOOSE i \in 1..Len(UpperLetters) : UpperLetters[i] = c]
  ELSE c

\* str.lower
Lower(s) == [i \in 1..Len(s) |-> LowerChar(s[i])]

RECURSIVE LStrip(_)
LStrip(s) ==
  IF s # <<>> /\ Head(s) \in Whitespace THEN LStrip(Tail(s)) ELSE s

RECURSIVE RStrip(_)
RStrip(s) ==
  IF s # <<>> /\ s[Len(s)] \in Whitespace
  THEN RStrip(SubSeq(s, 1, Len(s) - 1))
  ELSE s

\* str.strip
Strip(s) == RStrip(LStrip(s))

\* re.sub(r"\s+", " ", s): every run of whitespace becomes one space
RECURSIVE CollapseSpaces(_)
CollapseSpaces(s) ==
  IF s = <<>> THEN <<>>
  ELSE IF Head(s) \in Whitespace
       THEN <<" ">> \o CollapseSpaces(LStrip(s))
       ELSE <<Head(s)>> \o CollapseSpaces(Tail(s))

\* str.replace(old, new) for one-character old and new
ReplaceChar(s, old, new) == [i \in 1..Len(s) |-> IF s[i] = old THEN new ELSE s[i]]

\* str.split(sep): the pieces between the occurrences of the character sep
RECURSIVE Split(_, _)
Split(s, sep) ==
  IF \A i \in 1..Len(s) : s[i] # sep THEN <<s>>
  ELSE LET k == CHOOSE i \in 1..Len(s) :
                  s[i] = sep /\ \A j \in 1..(i - 1) : s[j] # sep
       IN <<SubSeq(s, 1, k - 1)>> \o Split(SubSeq(s, k + 1, Len(s)), sep)

\* str.startswith
StartsWith(s, p) == Len(s) >= Len(p) /\ SubSeq(s, 1, Len(p)) = p

RECURSIVE NatToText(_)
NatToText(n) ==
  LET d == <<"0","1","2","3","4","5","6","7","8","9">>[(n % 10) + 1]
  IN IF n < 10 THEN <<d>> ELSE NatToText(n \div 10) \o <<d>>

\* str(n) of an integer
IntToText(n) == IF n < 0 THEN <<"-">> \o NatToText(0 - n) ELSE NatToText(n)

DigitValue(c) == CHOOSE v \in 0..9 : NatToText(v) = <<c>>

RECURSIVE DigitsToNat(_)
DigitsToNat(s) ==
  IF s = <<>> THEN 0
  ELSE 10 * DigitsToNat(SubSeq(s, 1, Len(s) - 1)) + DigitValue(s[Len(s)])

\* whether int(s) returns (it raises ValueError otherwise)
IsIntText(s) ==
  LET t == Strip(s)
      body == IF t # <<>> /\ t[1] \in {"-", "+"} THEN Tail(t) ELSE t
  IN body # <<>> /\ \A i \in 1..Len(body) : body[i] \in Digits

\* int(s), for an s that IsIntText
TextToInt(s) ==
  LET t == Strip(s)
  IN IF t[1] = "-" THEN 0 - DigitsToNat(Tail(t))
     ELSE IF t[1] = "+" THEN DigitsToNat(Tail(t))
     ELSE DigitsToNat(t)

(***************************************************************************)
(* VALIDATION + HELPERS (src/bot.py 131-175)                               *)
(***************************************************************************)
\* EN_TEXT_RE: ^[A-Za-z0-9\s\-\.'\,/#]+$
EN_TEXT_RE(s) ==
  /\ s # <<>>
  /\ \A i \in 1..Len(s) :
       s[i] \in AsciiLetters \cup Digits \cup Whitespace \cup EnPunctuation

is_en(s) == LET t == Strip(s) IN t # <<>> /\ EN_TEXT_RE(t)

\* PHONE_RE: ^380\d{9}$
PHONE_RE(s) ==
  /\ Len(s) = 12
  /\ SubSeq(s, 1, 3) = <<"3","8","0">>
  /\ \A i \in 4..12 : s[i] \in Digits

is_phone(s) == PHONE_RE(Strip(s))

\* EMAIL_RE: ^[^@\s]+@[^@\s]+\.[^@\s]+$
EMAIL_RE(s) ==
  /\ \A i \in 1..Len(s) : s[i] \notin Whitespace
  /\ Cardinality({i \in 1..Len(s) : s[i] = "@"}) = 1
  /\ LET at == CHOOSE i \in 1..Len(s) : s[i] = "@"
     IN /\ at > 1
        /\ \E k \in (at + 2)..(Len(s) - 1) : s[k] = "."

is_email(s) == EMAIL_RE(Strip(s))

NextTokens ==
  { <<"U+0434","U+0430","U+043B","U+0456">>,
    <<"U+0434","U+0430","U+043B","U+0438">>,
    <<"U+0434","U+0430","U+043B","i">>,
    <<"n","e","x","t">> }

is_next_ua(s) == Lower(Strip(s)) \in NextTokens

\* normalize_name_key without .lower()
normalize_name_key_KeepsCase(name) == CollapseSpaces(Strip(name))

normalize_name_key(name) == Lower(CollapseSpaces(Strip(name)))

\* ddmmyyyy.split(".") unpacked into d, m, y: ValueError unless three pieces
CanSplitDate(ddmmyyyy) == Len(Split(ddmmyyyy, ".")) = 3

ddmmyyyy_to_mmddyyyy(ddmmyyyy) ==
  LET p == Split(ddmmyyyy, ".")
  IN p[2] \o <<"/">> \o p[1] \o <<"/">> \o p[3]

\* \d{2}[./]\d{2}[./]\d{4}
is_dob_ua(text) ==
  LET t == Strip(text)
  IN /\ Len(t) = 10
     /\ \A i \in {1, 2, 4, 5, 7, 8, 9, 10} : t[i] \in Digits
     /\ \A i \in {3, 6} : t[i] \in {".", "/"}

dob_ua_to_mmddyyyy(text) ==
  LET p == Split(ReplaceChar(Strip(text), "/", "."), ".")
  IN p[2] \o <<"/">> \o p[1] \o <<"/">> \o p[3]

\* a dict: a function whose domain is the set of keys present
missing_required(data, keys) == \E k \in keys : k \notin DOMAIN data

\* datetime.now(timezone.utc).isoformat(timespec="seconds"): one instant
\* stands for every instant; the text is never empty
utc_now_iso ==
  <<"2","0","2","6","-","0","1","-","0","5","T","0","9",":","0","0",":","0","0",
    "+","0","0",":","0","0">>

(***************************************************************************)
(* The state.                                                              *)
(***************************************************************************)
VARIABLES
  step,       \* FSMContext state of each submitter ("none" after clear)
  draft,      \* FSMContext data of each submitter: a dict
  sheet,      \* the spreadsheet: per tab name NoTab, or its grid of rows
  wpc,        \* status_watcher: "scanning" or "sleeping"
  wday,       \* status_watcher: index into DATES of the day being scanned
              \* (0: the cycle has not opened the spreadsheet yet)
  wrow,       \* status_watcher: r_i, the 1-based row being processed
              \* (0: the day's values have not been read yet)
  values,     \* status_watcher: what ws.get_all_values() returned
  delivered,  \* history: per row, the decision messages bot.send_message
              \* delivered for it, oldest first
  wlast,      \* history: what the last step of status_watcher did
  wdue,       \* history: the rows that were approved, unmarked and
              \* addressable when the running cycle began, that the manager
              \* has not edited since and that no call of the cycle failed
  wfailed     \* history: the rows a delivery attempt has failed for

vars ==
  <<step, draft, sheet, wpc, wday, wrow, values, delivered, wlast, wdue, wfailed>>

intakeVars == <<step, draft>>
watcherVars == <<wpc, wday, wrow, values, delivered, wlast, wdue, wfailed>>

(***************************************************************************)
(* The environment: who talks to the bot and what they send.               *)
(***************************************************************************)
Users == 1..NumUsers

\* call.message.chat.id of a submitter's private chat
ChatIdOf(u) == 700 + u

\* a date the keyboard never offered, in the format of the offered ones
ForgedDate == <<"3","2",".","0","1",".","2","0","2","6">>

\* a time the keyboard never offered
ForgedTime == <<"0","9",":","9","9">>

TabNames == {DATES[i] : i \in 1..Len(DATES)} \cup {ForgedDate}

\* texts a submitter types
T_anna == <<"a","n","n","a"," "," "," ","i","v","a","n","o","v","a">>
T_AnnaI == <<"A","n","n","a"," ","I","."," ","I","v","a","n","o","v","a">>
T_Dob == <<"2","2","/","1","2","/","1","9","9","8">>
T_Addr == <<"1","2"," ","K","h","r","e","s","h","c","h","a","t","y","k"," ","S","t">>
T_Kyiv == <<"K","y","i","v">>
T_Phone == <<"3","8","0","9","3","1","1","1","1","1","1","1">>
T_PhonePlus == <<"+","3","8","0","9","3","1","1","1","1","1","1","1">>
T_Email == <<"n","a","m","e","@","g","m","a","i","l",".","c","o","m">>
T_EmailNoTld == <<"n","a","m","e","@","g","m","a","i","l">>
T_Olha == <<"O","l","h","a"," ","I","v","a","n","o","v","a">>
T_Dali == <<"U+0414","U+0410","U+041B","U+0406">>
T_Start == <<"/","s","t","a","r","t">>

\* the texts a submitter types at a step: answers the step is meant to
\* take, answers it is not, the answer of the step before (a message
\* Telegram delivers a second time arrives at the next step), and the start
\* command
TextsAt(form) ==
  {T_Start} \cup
  CASE form = "model_name" -> {T_anna, T_AnnaI, T_Email}
    [] form = "dob" -> {T_Dob, T_Phone, T_AnnaI}
    [] form = "residence_address" -> {T_Dali, T_Addr, T_Email, T_Dob}
    [] form = "city" -> {T_Kyiv, T_Dali, T_Addr}
    [] form = "phone" -> {T_Phone, T_PhonePlus, T_Kyiv}
    [] form = "email" -> {T_Email, T_EmailNoTld, T_Phone}
    [] form = "minor" -> {T_Email}
    [] form = "guardian_name" -> {T_Olha, T_Dali}
    [] form = "photo" -> {T_Olha, T_Phone}
    [] OTHER -> {T_Phone}

MIME_Jpeg == <<"i","m","a","g","e","/","j","p","e","g">>
MIME_Pdf == <<"a","p","p","l","i","c","a","t","i","o","n","/","p","d","f">>

Forms ==
  {"shoot_date", "shoot_time", "model_name", "dob", "residence_address",
   "city", "phone", "email", "minor", "guardian_name", "photo", "consent"}

\* a Message: a text, a photo, or a document with its mime type
MessagesAt(form) ==
  {[kind |-> "text", text |-> t] : t \in TextsAt(form)}
    \cup {[kind |-> "photo"]}
    \cup {[kind |-> "document", mime |-> m] : m \in {MIME_Jpeg, MIME_Pdf}}

MessageInputs == UNION {MessagesAt(form) : form \in Forms \cup {"none"}}

P_date == <<"d","a","t","e",":">>
P_time == <<"t","i","m","e",":">>
P_minor == <<"m","i","n","o","r",":">>
P_more == <<"m","o","r","e",":">>
D_begin == <<"b","e","g","i","n",":","y","e","s">>
D_consent == <<"c","o","n","s","e","n","t",":","y","e","s">>
T_yes == <<"y","e","s">>
T_no == <<"n","o">>
T_maybe == <<"m","a","y","b","e">>

\* the callback_data of a CallbackQuery: the data of the buttons the
\* keyboards build (kb_begin .. kb_more), and data no keyboard built
CallbackInputs ==
  {D_begin, D_consent}
    \cup {P_date \o d : d \in {DATES[1], DATES[2], ForgedDate}}
    \cup {P_time \o t : t \in {TIMES[1], ForgedTime}}
    \cup {P_minor \o c : c \in {T_yes, T_no, T_maybe}}
    \cup {P_more \o c : c \in {T_yes, T_no}}

\* what an external call does: it returns, or it raises
Outcomes == {"ok", "fail"}

\* created["webViewLink"], the link Drive returns for an uploaded photo
DriveLink ==
  <<"h","t","t","p","s",":","/","/","d","r","i","v","e",".","g","o","o","g",
    "l","e",".","c","o","m","/","f","i","l","e","/","d","/","1","/","v","i",
    "e","w">>

(***************************************************************************)
(* GOOGLE (Sheets): a tab is NoTab or its grid, a sequence of rows, each a *)
(* sequence of cells; row 1 is the header.  (src/bot.py 268-321)           *)
(***************************************************************************)
\* (a grid no worksheet can hold: its one cell is not made of characters)
NoTab == << << <<"NoTab">> >> >>

\* ws.row_values(r)
row_values(g, r) == IF r <= Len(g) THEN g[r] ELSE <<>>

\* ws.col_values(c): the cells of column c, top to bottom
col_values(g, c) ==
  [r \in 1..Len(g) |-> IF c <= Len(g[r]) THEN g[r][c] ELSE EmptyText]

\* append_row that writes over the last row of the records
append_row_OverLast(g, row) ==
  IF Len(g) >= 2 THEN [g EXCEPT ![Len(g)] = row] ELSE Append(g, row)

\* ws.append_row(row)
append_row(g, row) == Append(g, row)

\* ws.update_cell(r, c, v); a short row is padded up to column c
update_cell(g, r, c, v) ==
  LET old == g[r]
      wide == [i \in 1..(IF Len(old) < c THEN c ELSE Len(old)) |->
                 IF i <= Len(old) THEN old[i] ELSE EmptyText]
  IN [g EXCEPT ![r] = [wide EXCEPT ![c] = v]]

\* the columns of HEADER that `existing` lacks, in the order of HEADER
RECURSIVE need_append(_, _)
need_append(existing, cols) ==
  IF cols = <<>> THEN <<>>
  ELSE (IF \E i \in 1..Len(existing) : existing[i] = Head(cols)
        THEN <<>> ELSE <<Head(cols)>>)
       \o need_append(existing, Tail(cols))

\* the grid of the day's tab after ensure_day_tab_and_headers(sh, day)
ensure_day_tab_and_headers(g) ==
  IF g = NoTab THEN <<HEADER>>
  ELSE IF row_values(g, 1) = <<>> THEN append_row(g, HEADER)
  ELSE [g EXCEPT ![1] = g[1] \o need_append(g[1], HEADER)]

\* 1-based index of the column named col_name, -1 when there is none
find_col_index(headers, col_name) ==
  LET found == {i \in 1..Len(headers) : Strip(headers[i]) = col_name}
  IN IF found # {}
     THEN CHOOSE i \in found : \A j \in found : i <= j
     ELSE -1

\* model_exists_in_tab that compares the names as they are written
model_exists_in_tab_AsWritten(g, model_name) ==
  LET headers == row_values(g, 1)
      idx == find_col_index(headers, COL_ModelName)
  IN IF idx < 1 THEN FALSE
     ELSE LET col == col_values(g, idx)
          IN \E r \in 2..Len(col) : col[r] # EmptyText /\ col[r] = model_name

model_exists_in_tab(g, model_name) ==
  LET headers == row_values(g, 1)
      idx == find_col_index(headers, COL_ModelName)
  IN IF idx < 1 THEN FALSE
     ELSE LET col == col_values(g, idx)
              key == normalize_name_key(model_name)
          IN \E r \in 2..Len(col) :
               col[r] # EmptyText /\ normalize_name_key(col[r]) = key

\* a row of the sheet: its tab and its 1-based row number
Rows == TabNames \X (2..(MaxRows + 1))

\* the rows the spreadsheet holds
DataRows ==
  {rec \in Rows : sheet[rec[1]] # NoTab /\ rec[2] <= Len(sheet[rec[1]])}

\* the cell of column col_name in row r of grid g, as status_watcher reads it
\* (the set binds ci once)
CellOf(g, r, col_name) ==
  CHOOSE v \in { IF ci >= 1 /\ ci <= Len(g[r]) THEN Strip(g[r][ci]) ELSE EmptyText :
                  ci \in {find_col_index(row_values(g, 1), col_name)} } : TRUE

(***************************************************************************)
(* FSMContext (aiogram MemoryStorage)                                      *)
(***************************************************************************)
EmptyData == <<>>

\* state.update_data(**kv)
update_data(data, kv) ==
  [k \in DOMAIN data \cup DOMAIN kv |-> IF k \in DOMAIN kv THEN kv[k] ELSE data[k]]

\* data.get(k) or ""
get_or_empty(data, k) == IF k \in DOMAIN data THEN data[k] ELSE EmptyText

\* state.clear()
Clear(u) ==
  /\ step' = [step EXCEPT ![u] = "none"]
  /\ draft' = [draft EXCEPT ![u] = EmptyData]

\* state.update_data(**kv) followed by state.set_state(next)
Advance(u, kv, next) ==
  /\ draft' = [draft EXCEPT ![u] = update_data(draft[u], kv)]
  /\ step' = [step EXCEPT ![u] = next]

\* the handler returns (or raises) before it touches the FSMContext
Stay == UNCHANGED <<step, draft>>

\* the text after the first ":" of callback data: data.split(":", 1)[1]
AfterColon(data) ==
  LET k == CHOOSE i \in 1..Len(data) :
             data[i] = ":" /\ \A j \in 1..(i - 1) : data[j] # ":"
  IN SubSeq(data, k + 1, Len(data))

\* the CommandStart() filter
IsStartCommand(m) ==
  /\ m.kind = "text"
  /\ Split(m.text, " ")[1] = T_Start

\* a message handler registered for `form` gets the message: no handler
\* registered before it took it.  (At a step the submitter sends the
\* messages of MessagesAt.)
MessageFor(u, m, form) ==
  /\ step[u] = form
  /\ m \in MessagesAt(form)
  /\ ~IsStartCommand(m)

(***************************************************************************)
(* HANDLERS (src/bot.py 378-652).  u is the submitter, m a Message, data   *)
(* the callback_data of a CallbackQuery.  The guard of each handler is the *)
(* filter main() registers it with.                                        *)
(***************************************************************************)
\* cmd_start that resets the step and keeps the data
cmd_start_KeepsData(u, m) ==
  /\ IsStartCommand(m)
  /\ step' = [step EXCEPT ![u] = "none"]
  /\ UNCHANGED <<draft, sheet, watcherVars>>

cmd_start(u, m) ==
  /\ IsStartCommand(m)
  /\ Clear(u)
  /\ UNCHANGED <<sheet, watcherVars>>

on_begin(u, data) ==
  /\ data = D_begin
  /\ step' = [step EXCEPT ![u] = "shoot_date"]
  /\ draft' = [draft EXCEPT ![u] = EmptyData]
  /\ UNCHANGED <<sheet, watcherVars>>

on_date(u, data) ==
  /\ StartsWith(data, P_date)
  /\ step[u] = "shoot_date"
  /\ Advance(u, [shoot_date |-> AfterColon(data)], "shoot_time")
  /\ UNCHANGED <<sheet, watcherVars>>

\* on_time registered without the Form.shoot_time filter
on_time_AtAnyStep(u, data) ==
  /\ StartsWith(data, P_time)
  /\ Advance(u, [shoot_time |-> AfterColon(data)], "model_name")
  /\ UNCHANGED <<sheet, watcherVars>>

on_time(u, data) ==
  /\ StartsWith(data, P_time)
  /\ step[u] = "shoot_time"
  /\ Advance(u, [shoot_time |-> AfterColon(data)], "model_name")
  /\ UNCHANGED <<sheet, watcherVars>>

\* on_model_name that asks again when the check raises
on_model_name_HoldsOnError(u, m, store) ==
  /\ MessageFor(u, m, "model_name")
  /\ UNCHANGED watcherVars
  /\ IF m.kind # "text" THEN Stay /\ UNCHANGED sheet
     ELSE LET text == Strip(m.text)
              hasDate == "shoot_date" \in DOMAIN draft[u]
              day == IF hasDate THEN draft[u]["shoot_date"] ELSE ForgedDate
              ws == ensure_day_tab_and_headers(sheet[day])
          IN IF ~is_en(text) THEN Stay /\ UNCHANGED sheet
             ELSE IF store = "ok" /\ hasDate
                  THEN /\ sheet' = [sheet EXCEPT ![day] = ws]
                       /\ IF model_exists_in_tab(ws, text) THEN Stay
                          ELSE Advance(u, [model_name |-> text], "dob")
                  ELSE /\ UNCHANGED sheet
                       /\ Stay

\* on_model_name that ends the session when the name is taken
on_model_name_DropsDraft(u, m, store) ==
  /\ MessageFor(u, m, "model_name")
  /\ UNCHANGED watcherVars
  /\ IF m.kind # "text" THEN Stay /\ UNCHANGED sheet
     ELSE LET text == Strip(m.text)
              hasDate == "shoot_date" \in DOMAIN draft[u]
              day == IF hasDate THEN draft[u]["shoot_date"] ELSE ForgedDate
              ws == ensure_day_tab_and_headers(sheet[day])
          IN IF ~is_en(text) THEN Stay /\ UNCHANGED sheet
             ELSE IF store = "ok" /\ hasDate
                  THEN /\ sheet' = [sheet EXCEPT ![day] = ws]
                       /\ IF model_exists_in_tab(ws, text) THEN Clear(u)
                          ELSE Advance(u, [model_name |-> text], "dob")
                  ELSE /\ UNCHANGED sheet
                       /\ Advance(u, [model_name |-> text], "dob")

\* store: whether the calls to the spreadsheet return ("ok") or one raises
on_model_name(u, m, store) ==
  /\ MessageFor(u, m, "model_name")
  /\ UNCHANGED watcherVars
  /\ IF m.kind # "text" THEN Stay /\ UNCHANGED sheet   \* None.strip() raises
     ELSE LET text == Strip(m.text)
              hasDate == "shoot_date" \in DOMAIN draft[u]
              day == IF hasDate THEN draft[u]["shoot_date"] ELSE ForgedDate
              ws == ensure_day_tab_and_headers(sheet[day])
          IN IF ~is_en(text) THEN Stay /\ UNCHANGED sheet
             ELSE IF store = "ok" /\ hasDate
                  THEN /\ sheet' = [sheet EXCEPT ![day] = ws]
                       /\ IF model_exists_in_tab(ws, text) THEN Stay
                          ELSE Advance(u, [model_name |-> text], "dob")
                  ELSE \* except Exception: pass
                       /\ UNCHANGED sheet
                       /\ Advance(u, [model_name |-> text], "dob")

on_dob(u, m) ==
  /\ MessageFor(u, m, "dob")
  /\ UNCHANGED <<sheet, watcherVars>>
  /\ IF m.kind # "text" THEN Stay
     ELSE LET text == Strip(m.text)
          IN IF ~is_dob_ua(text) THEN Stay
             ELSE Advance(u, [dob |-> dob_ua_to_mmddyyyy(text)],
                          "residence_address")

on_residence_address(u, m) ==
  /\ MessageFor(u, m, "residence_address")
  /\ UNCHANGED <<sheet, watcherVars>>
  /\ IF m.kind # "text" THEN Stay
     ELSE LET text == Strip(m.text)
          IN IF is_next_ua(text)
             THEN Advance(u, [residence_address |-> EmptyText,
                              city |-> EmptyText], "phone")
             ELSE IF ~is_en(text) THEN Stay
             ELSE Advance(u, [residence_address |-> text], "city")

on_city(u, m) ==
  /\ MessageFor(u, m, "city")
  /\ UNCHANGED <<sheet, watcherVars>>
  /\ IF m.kind # "text" THEN Stay
     ELSE LET text == Strip(m.text)
          IN IF ~is_en(text) THEN Stay
             ELSE Advance(u, [city |-> text], "phone")

on_phone(u, m) ==
  /\ MessageFor(u, m, "phone")
  /\ UNCHANGED <<sheet, watcherVars>>
  /\ IF m.kind # "text" THEN Stay
     ELSE LET text == Strip(m.text)
          IN IF ~is_phone(text) THEN Stay
             ELSE Advance(u, [phone |-> text], "email")

on_email(u, m) ==
  /\ MessageFor(u, m, "email")
  /\ UNCHANGED <<sheet, watcherVars>>
  /\ IF m.kind # "text" THEN Stay
     ELSE LET text == Strip(m.text)
          IN IF ~is_email(text) THEN Stay
             ELSE Advance(u, [email |-> text], "minor")

\* on_minor whose "no" branch leaves guardian_name unset
on_minor_ForgetsGuardian(u, data) ==
  /\ StartsWith(data, P_minor)
  /\ step[u] = "minor"
  /\ UNCHANGED <<sheet, watcherVars>>
  /\ IF AfterColon(data) = T_yes
     THEN Advance(u, [minor |-> TRUE], "guardian_name")
     ELSE Advance(u, [minor |-> FALSE], "photo")

on_minor(u, data) ==
  /\ StartsWith(data, P_minor)
  /\ step[u] = "minor"
  /\ UNCHANGED <<sheet, watcherVars>>
  /\ IF AfterColon(data) = T_yes
     THEN Advance(u, [minor |-> TRUE], "guardian_name")
     ELSE Advance(u, [minor |-> FALSE, guardian_name |-> EmptyText], "photo")

on_guardian_name(u, m) ==
  /\ MessageFor(u, m, "guardian_name")
  /\ UNCHANGED <<sheet, watcherVars>>
  /\ IF m.kind # "text" THEN Stay
     ELSE LET text == Strip(m.text)
          IN IF ~is_en(text) THEN Stay
             ELSE Advance(u, [guardian_name |-> text], "photo")

\* on_photo that goes on to consent when the upload raises
on_photo_MovesOnWithoutPhoto(u, m, upload) ==
  /\ MessageFor(u, m, "photo")
  /\ UNCHANGED <<sheet, watcherVars>>
  /\ LET has_file ==
           \/ m.kind = "photo"
           \/ m.kind = "document" /\ StartsWith(m.mime, <<"i","m","a","g","e","/">>)
     IN IF ~has_file THEN Stay
        ELSE IF missing_required(draft[u],
                  {"shoot_date", "shoot_time", "model_name", "phone"})
             THEN Clear(u)
        ELSE IF upload # "ok" THEN Advance(u, [photo_drive_url |-> EmptyText], "consent")
        ELSE Advance(u, [photo_drive_url |-> DriveLink], "consent")

\* upload: whether upload_photo_to_drive returns ("ok") or raises
on_photo(u, m, upload) ==
  /\ MessageFor(u, m, "photo")
  /\ UNCHANGED <<sheet, watcherVars>>
  /\ LET has_file ==
           \/ m.kind = "photo"
           \/ m.kind = "document" /\ StartsWith(m.mime, <<"i","m","a","g","e","/">>)
     IN IF ~has_file THEN Stay
        ELSE IF missing_required(draft[u],
                  {"shoot_date", "shoot_time", "model_name", "phone"})
             THEN Clear(u)
        ELSE IF upload # "ok" THEN Stay
        ELSE Advance(u, [photo_drive_url |-> DriveLink], "consent")

\* the row on_consent builds, in the order of HEADER
ConsentRow(u, data) ==
  LET shoot_date_mmddyyyy == ddmmyyyy_to_mmddyyyy(data["shoot_date"])
  IN << NAMEPRINT_CONST,
        shoot_date_mmddyyyy,
        shoot_date_mmddyyyy,
        SHOOTPLACE_CONST,
        SHOOTSTATE_CONST,
        Strip(data["model_name"]),
        Strip(data["dob"]),
        Strip(get_or_empty(data, "residence_address")),
        Strip(get_or_empty(data, "city")),
        EmptyText,
        COUNTRY_CONST,
        EmptyText,
        Strip(data["phone"]),
        Strip(data["email"]),
        Strip(get_or_empty(data, "guardian_name")),
        shoot_date_mmddyyyy,
        Strip(data["photo_drive_url"]),
        IntToText(ChatIdOf(u)),
        STATUS_PENDING,
        EmptyText >>

\* on_consent that ends the session when ws.append_row raises
on_consent_ClearsOnFailure(u, data, store) ==
  /\ data = D_consent
  /\ step[u] = "consent"
  /\ UNCHANGED watcherVars
  /\ IF missing_required(draft[u],
          {"shoot_date", "model_name", "dob", "phone", "email", "photo_drive_url"})
     THEN Clear(u) /\ UNCHANGED sheet
     ELSE LET day == draft[u]["shoot_date"]
              ws == ensure_day_tab_and_headers(sheet[day])
          IN IF ~CanSplitDate(day) \/ store = "fail_open"
             THEN Stay /\ UNCHANGED sheet
             ELSE IF model_exists_in_tab(ws, draft[u]["model_name"])
             THEN /\ sheet' = [sheet EXCEPT ![day] = ws]
                  /\ Clear(u)
             ELSE IF store = "fail_append"
             THEN /\ sheet' = [sheet EXCEPT ![day] = ws]
                  /\ Clear(u)
             ELSE /\ Cardinality(DataRows) < MaxRows
                  /\ sheet' = [sheet EXCEPT ![day] = append_row(ws, ConsentRow(u, draft[u]))]
                  /\ Clear(u)

\* store: "ok", or which call to the spreadsheet raises: opening the tab
\* ("fail_open") or ws.append_row ("fail_append")
on_consent(u, data, store) ==
  /\ data = D_consent
  /\ step[u] = "consent"
  /\ UNCHANGED watcherVars
  /\ IF missing_required(draft[u],
          {"shoot_date", "model_name", "dob", "phone", "email", "photo_drive_url"})
     THEN Clear(u) /\ UNCHANGED sheet
     ELSE LET day == draft[u]["shoot_date"]
              ws == ensure_day_tab_and_headers(sheet[day])
          IN IF ~CanSplitDate(day) \/ store = "fail_open"
             THEN Stay /\ UNCHANGED sheet       \* the handler raises
             ELSE IF model_exists_in_tab(ws, draft[u]["model_name"])
             THEN /\ sheet' = [sheet EXCEPT ![day] = ws]
                  /\ Clear(u)
             ELSE IF store = "fail_append"
             THEN /\ sheet' = [sheet EXCEPT ![day] = ws]
                  /\ Stay                       \* ws.append_row raises
             ELSE /\ Cardinality(DataRows) < MaxRows   \* the sheet has room
                  /\ sheet' = [sheet EXCEPT ![day] = append_row(ws, ConsentRow(u, draft[u]))]
                  /\ Clear(u)

on_more(u, data) ==
  /\ StartsWith(data, P_more)
  /\ draft' = [draft EXCEPT ![u] = EmptyData]
  /\ step' = [step EXCEPT ![u] =
                IF AfterColon(data) = T_yes THEN "shoot_date" ELSE "none"]
  /\ UNCHANGED <<sheet, watcherVars>>

\* the Dispatcher hands a Message to the first handler whose filter holds
DeliverMessage(u, m) ==
  \/ cmd_start(u, m)
  \/ \E store \in Outcomes : on_model_name(u, m, store)
  \/ on_dob(u, m)
  \/ on_residence_address(u, m)
  \/ on_city(u, m)
  \/ on_phone(u, m)
  \/ on_email(u, m)
  \/ on_guardian_name(u, m)
  \/ \E upload \in Outcomes : on_photo(u, m, upload)

\* the Dispatcher hands a CallbackQuery to the first handler whose filter holds
DeliverCallback(u, data) ==
  \/ on_begin(u, data)
  \/ on_date(u, data)
  \/ on_time(u, data)
  \/ on_minor(u, data)
  \/ \E store \in {"ok", "fail_open", "fail_append"} : on_consent(u, data, store)
  \/ on_more(u, data)

(***************************************************************************)
(* The manager edits the Status cell of a row by hand.                     *)
(***************************************************************************)
T_ApprovedTyped == <<" ","A","p","p","r","o","v","e","d">>

\* what the manager types into Status
StatusInputs == {STATUS_PENDING, T_ApprovedTyped, STATUS_REJECTED}

\* the manager decides on the applications the bot recorded: the rows that
\* carry a chat id
ManagerSetStatus(day, r, s) ==
  /\ sheet[day] # NoTab
  /\ r \in 2..Len(sheet[day])
  /\ IsIntText(CellOf(sheet[day], r, COL_TelegramChatId))
  /\ LET ci == find_col_index(row_values(sheet[day], 1), COL_Status)
     IN /\ ci >= 1
        /\ CellOf(sheet[day], r, COL_Status) # Strip(s)
        /\ sheet' = [sheet EXCEPT ![day] = update_cell(sheet[day], r, ci, s)]
  /\ wdue' = wdue \ {<<day, r>>}
  /\ UNCHANGED <<step, draft, wpc, wday, wrow, values, delivered, wlast, wfailed>>

(***************************************************************************)
(* MANAGER STATUS WATCHER (src/bot.py 658-733)                             *)
(***************************************************************************)
NoStep == [kind |-> "none", row |-> <<>>, attempted |-> FALSE,
           sent |-> FALSE, wrote |-> FALSE]

\* the rows a cycle that starts now finds approved, unmarked and addressable
DueNow ==
  { rec \in Rows :
      LET g == sheet[rec[1]]
      IN /\ g # NoTab
         /\ rec[2] <= Len(g)
         /\ Lower(CellOf(g, rec[2], COL_Status)) = STATUS_APPROVED
         /\ CellOf(g, rec[2], COL_NotifiedAt) = EmptyText
         /\ IsIntText(CellOf(g, rec[2], COL_TelegramChatId)) }

\* await asyncio.sleep(STATUS_POLL_SECONDS) returns: the next cycle begins
WatcherWake ==
  /\ wpc = "sleeping"
  /\ wpc' = "scanning"
  /\ wday' = 0
  /\ wrow' = 0
  /\ values' = <<>>
  /\ wlast' = [NoStep EXCEPT !.kind = "wake"]
  /\ wdue' = DueNow
  /\ UNCHANGED <<step, draft, sheet, delivered, wfailed>>

\* CycleAbort without the outer `try`: the exception ends the task
CycleAbort_Dies(kind) ==
  /\ wpc' = "dead"
  /\ wday' = 0
  /\ wrow' = 0
  /\ values' = <<>>
  /\ wlast' = [NoStep EXCEPT !.kind = kind]
  /\ wdue' = {}

\* an exception reaches the outer `except Exception: pass`: the cycle ends
\* and the loop goes to sleep
CycleAbort(kind) ==
  /\ wpc' = "sleeping"
  /\ wday' = 0
  /\ wrow' = 0
  /\ values' = <<>>
  /\ wlast' = [NoStep EXCEPT !.kind = kind]
  /\ wdue' = {}

\* `continue` of the loop over DATES, or its end: the next day, or sleep
NextDay ==
  /\ wrow' = 0
  /\ values' = <<>>
  /\ IF wday < Len(DATES)
     THEN wpc' = "scanning" /\ wday' = wday + 1
     ELSE wpc' = "sleeping" /\ wday' = 0

\* gspread.authorize(...) and open_sheet(gc)
WatcherOpen(store) ==
  /\ wpc = "scanning"
  /\ wday = 0
  /\ UNCHANGED <<step, draft, sheet, delivered, wfailed>>
  /\ IF store = "ok"
     THEN /\ wday' = 1
          /\ wlast' = [NoStep EXCEPT !.kind = "open"]
          /\ UNCHANGED <<wpc, wrow, values, wdue>>
     ELSE CycleAbort("open_fail")

HasManagerColumns(headers) ==
  /\ find_col_index(headers, COL_TelegramChatId) >= 1
  /\ find_col_index(headers, COL_Status) >= 1
  /\ find_col_index(headers, COL_NotifiedAt) >= 1

\* one day of the loop over DATES, up to ws.get_all_values().
\* store: "ok", or which call raises something other than WorksheetNotFound:
\* sh.worksheet / ws.row_values ("fail_read") or ws.get_all_values
\* ("fail_values")
WatcherReadDay(store) ==
  /\ wpc = "scanning"
  /\ wday \in 1..Len(DATES)
  /\ wrow = 0
  /\ UNCHANGED <<step, draft, delivered, wfailed>>
  /\ LET day == DATES[wday]
         g == sheet[day]
         headers == row_values(g, 1)
     IN \E caughtUp \in {IF HasManagerColumns(headers) THEN g
                         ELSE ensure_day_tab_and_headers(g)} :
        IF store = "fail_read"
        THEN CycleAbort("read_fail") /\ UNCHANGED sheet
        ELSE IF g = NoTab \/ headers = <<>>
        THEN /\ NextDay
             /\ wlast' = [NoStep EXCEPT !.kind = "read"]
             /\ UNCHANGED <<sheet, wdue>>
        ELSE IF ~HasManagerColumns(row_values(caughtUp, 1))
        THEN /\ NextDay
             /\ sheet' = [sheet EXCEPT ![day] = caughtUp]
             /\ wlast' = [NoStep EXCEPT !.kind = "read"]
             /\ UNCHANGED wdue
        ELSE IF store = "fail_values"
        THEN /\ CycleAbort("read_fail")
             /\ sheet' = [sheet EXCEPT ![day] = caughtUp]
        ELSE /\ sheet' = [sheet EXCEPT ![day] = caughtUp]
             /\ wlast' = [NoStep EXCEPT !.kind = "read"]
             /\ UNCHANGED wdue
             /\ IF Len(caughtUp) < 2
                THEN NextDay
                ELSE /\ values' = caughtUp
                     /\ wrow' = 2
                     /\ UNCHANGED <<wpc, wday>>

\* get_cell(ci) on the row read
get_cell(row, ci) ==
  IF ci - 1 < Len(row) /\ row[ci] # EmptyText THEN Strip(row[ci]) ELSE EmptyText

\* after row r_i: the next row of values, or the next day
NextRow ==
  IF wrow < Len(values)
  THEN /\ wrow' = wrow + 1
       /\ UNCHANGED <<wpc, wday, values>>
  ELSE NextDay

\* Skips without `if notified: continue`
Skips_IgnoresMarker(chat_id, status, notified) ==
  \/ chat_id = EmptyText
  \/ status \notin {STATUS_APPROVED, STATUS_REJECTED}

\* Skips without the test of the status
Skips_IgnoresStatus(chat_id, status, notified) ==
  \/ chat_id = EmptyText
  \/ notified # EmptyText

\* the three `continue` of a row: no chat id, already notified, no decision
Skips(chat_id, status, notified) ==
  \/ chat_id = EmptyText
  \/ notified # EmptyText
  \/ status \notin {STATUS_APPROVED, STATUS_REJECTED}

\* SendFailed with the NotifiedAt stamp moved into a `finally`
SendFailed_Stamps(rec, idx_notif) ==
  /\ wlast' = [NoStep EXCEPT !.kind = "row", !.row = rec, !.attempted = TRUE]
  /\ wdue' = wdue \ {rec}
  /\ wfailed' = wfailed \cup {rec}
  /\ sheet' = [sheet EXCEPT ![rec[1]] =
                 update_cell(sheet[rec[1]], rec[2], idx_notif, utc_now_iso)]
  /\ UNCHANGED delivered

\* int(chat_id) or bot.send_message raises: `except Exception: pass`
SendFailed(rec, idx_notif) ==
  /\ wlast' = [NoStep EXCEPT !.kind = "row", !.row = rec, !.attempted = TRUE]
  /\ wdue' = wdue \ {rec}
  /\ wfailed' = wfailed \cup {rec}
  /\ UNCHANGED <<sheet, delivered>>

\* Sent that writes NotifiedAt into the last row of the tab
Sent_MarksLastRow(rec, idx_notif, chat_id, status, write) ==
  /\ delivered' = [delivered EXCEPT ![rec] =
                     Append(@, [to |-> TextToInt(chat_id), msg |-> status])]
  /\ UNCHANGED wfailed
  /\ IF write = "ok"
     THEN /\ sheet' = [sheet EXCEPT ![rec[1]] =
                         update_cell(sheet[rec[1]], Len(sheet[rec[1]]), idx_notif,
                                     utc_now_iso)]
          /\ wlast' = [kind |-> "row", row |-> rec, attempted |-> TRUE,
                       sent |-> TRUE, wrote |-> TRUE]
          /\ UNCHANGED wdue
     ELSE /\ Len(delivered[rec]) + 1 < MaxDelivered
          /\ UNCHANGED sheet
          /\ wlast' = [kind |-> "row", row |-> rec, attempted |-> TRUE,
                       sent |-> TRUE, wrote |-> FALSE]
          /\ wdue' = wdue \ {rec}

\* Sent that marks the row in its Status cell as well
Sent_StampsStatus(rec, idx_notif, chat_id, status, write) ==
  /\ delivered' = [delivered EXCEPT ![rec] =
                     Append(@, [to |-> TextToInt(chat_id), msg |-> status])]
  /\ UNCHANGED wfailed
  /\ IF write = "ok"
     THEN /\ sheet' = [sheet EXCEPT ![rec[1]] =
                         update_cell(
                           update_cell(sheet[rec[1]], rec[2], idx_notif, utc_now_iso),
                           rec[2],
                           find_col_index(row_values(sheet[rec[1]], 1), COL_Status),
                           <<"s","e","n","t">>)]
          /\ wlast' = [kind |-> "row", row |-> rec, attempted |-> TRUE,
                       sent |-> TRUE, wrote |-> TRUE]
          /\ UNCHANGED wdue
     ELSE /\ Len(delivered[rec]) + 1 < MaxDelivered
          /\ UNCHANGED sheet
          /\ wlast' = [kind |-> "row", row |-> rec, attempted |-> TRUE,
                       sent |-> TRUE, wrote |-> FALSE]
          /\ wdue' = wdue \ {rec}

\* bot.send_message returned; then ws.update_cell(r_i, idx_notif, now)
\* returns (write = "ok") or raises into `except Exception: pass`
Sent(rec, idx_notif, chat_id, status, write) ==
  /\ delivered' = [delivered EXCEPT ![rec] =
                     Append(@, [to |-> TextToInt(chat_id), msg |-> status])]
  /\ UNCHANGED wfailed
  /\ IF write = "ok"
     THEN /\ sheet' = [sheet EXCEPT ![rec[1]] =
                         update_cell(sheet[rec[1]], rec[2], idx_notif, utc_now_iso)]
          /\ wlast' = [kind |-> "row", row |-> rec, attempted |-> TRUE,
                       sent |-> TRUE, wrote |-> TRUE]
          /\ UNCHANGED wdue
     ELSE /\ Len(delivered[rec]) + 1 < MaxDelivered
          /\ UNCHANGED sheet
          /\ wlast' = [kind |-> "row", row |-> rec, attempted |-> TRUE,
                       sent |-> TRUE, wrote |-> FALSE]
          /\ wdue' = wdue \ {rec}

\* one turn of `for r_i in range(2, len(values) + 1)`.
\* send: whether bot.send_message returns; write: whether ws.update_cell does
WatcherRow(send, write) ==
  /\ wpc = "scanning"
  /\ wrow >= 2
  /\ UNCHANGED <<step, draft>>
  /\ NextRow
  /\ LET rec == <<DATES[wday], wrow>>
         row == values[wrow]
         headers == values[1]
     IN \E idx_chat \in {find_col_index(headers, COL_TelegramChatId)},
           idx_status \in {find_col_index(headers, COL_Status)},
           idx_notif \in {find_col_index(headers, COL_NotifiedAt)} :
        \E chat_id \in {get_cell(row, idx_chat)},
           status \in {Lower(get_cell(row, idx_status))},
           notified \in {get_cell(row, idx_notif)} :
          IF Skips(chat_id, status, notified)
          THEN /\ wlast' = [NoStep EXCEPT !.kind = "row", !.row = rec]
               /\ UNCHANGED <<sheet, delivered, wdue, wfailed>>
          ELSE IF ~IsIntText(chat_id) \/ send # "ok"
          THEN SendFailed(rec, idx_notif)
          ELSE Sent(rec, idx_notif, chat_id, status, write)

(***************************************************************************)
(* The spreadsheet the bot is started on.                                  *)
(***************************************************************************)
T_Anna == <<"A","n","n","a"," ","I","v","a","n","o","v","a">>

\* the header of a tab an older deployment made: no NotifiedAt column yet
OLD_HEADER == BASE_HEADER \o <<COL_TelegramChatId, COL_Status>>

\* a row of that tab, with the decision the manager typed
OldRow(name, chat) ==
  << NAMEPRINT_CONST,
     ddmmyyyy_to_mmddyyyy(DATES[1]),
     ddmmyyyy_to_mmddyyyy(DATES[1]),
     SHOOTPLACE_CONST,
     SHOOTSTATE_CONST,
     name,
     <<"1","2","/","2","2","/","1","9","9","8">>,
     EmptyText,
     EmptyText,
     EmptyText,
     COUNTRY_CONST,
     EmptyText,
     T_Phone,
     T_Email,
     EmptyText,
     ddmmyyyy_to_mmddyyyy(DATES[1]),
     DriveLink,
     chat,
     STATUS_APPROVED >>

\* someone who applied without a chat: the chat id is empty
WalkInRow == OldRow(T_Anna, EmptyText)

\* someone recorded by user name: the chat id is no number
HandleRow == OldRow(T_Olha, <<"@","o","l","h","a">>)

\* the first day's tab is old and holds two approved rows nobody can be
\* written to; no other day has a tab yet
UsedSheet ==
  [d \in TabNames |->
     IF d = DATES[1] THEN <<OLD_HEADER, WalkInRow, HandleRow>> ELSE NoTab]

(***************************************************************************)
(* The program after main() has built the Dispatcher and created the       *)
(* status_watcher task, whose first cycle starts at once.                  *)
(***************************************************************************)
WatcherInit ==
  /\ wpc = "scanning"
  /\ wday = 0
  /\ wrow = 0
  /\ values = <<>>
  /\ delivered = [rec \in Rows |-> <<>>]
  /\ wlast = NoStep
  /\ wdue = DueNow
  /\ wfailed = {}

Init ==
  /\ step = [u \in Users |-> "none"]
  /\ draft = [u \in Users |-> EmptyData]
  /\ sheet = UsedSheet
  /\ WatcherInit

Intake(u) ==
  \/ \E m \in MessageInputs : DeliverMessage(u, m)
  \/ \E data \in CallbackInputs : DeliverCallback(u, data)

Manager ==
  \E rec \in Rows : \E s \in StatusInputs : ManagerSetStatus(rec[1], rec[2], s)

Watcher ==
  \/ WatcherWake
  \/ \E store \in Outcomes : WatcherOpen(store)
  \/ \E store \in {"ok", "fail_read", "fail_values"} : WatcherReadDay(store)
  \/ \E send \in Outcomes : \E write \in Outcomes : WatcherRow(send, write)

Next ==
  \/ \E u \in Users : Intake(u)
  \/ Manager
  \/ Watcher

Spec == Init /\ [][Next]_vars

(***************************************************************************)
(* The interview alone: one submitter answers, nobody else acts.           *)
(***************************************************************************)
Interviewee == {1}

NextIntake == \E u \in Interviewee : Intake(u)

SpecIntake == Init /\ [][NextIntake]_vars

(***************************************************************************)
(* The reconciliation: every submitter has reached the consent step with a *)
(* finished Draft; they commit, the manager decides, status_watcher runs.  *)
(***************************************************************************)
\* the Draft of a submitter who answered every question, skipping the address
FinishedDraft(u, day) ==
  [shoot_date |-> day,
   shoot_time |-> TIMES[1],
   model_name |-> IF u = 1 THEN T_AnnaI ELSE T_anna,
   dob |-> dob_ua_to_mmddyyyy(T_Dob),
   residence_address |-> EmptyText,
   city |-> EmptyText,
   phone |-> T_Phone,
   email |-> T_Email,
   minor |-> FALSE,
   guardian_name |-> EmptyText,
   photo_drive_url |-> DriveLink]

\* the day each submitter chose: the first submitter one of the days on
\* offer, the others a day the keyboard never offered
ChosenDays ==
  { c \in [Users -> TabNames] :
      /\ c[1] \in {DATES[1], DATES[2]}
      /\ \A u \in Users \ {1} : c[u] = ForgedDate }

InitRecon ==
  /\ step = [u \in Users |-> "consent"]
  /\ \E c \in ChosenDays : draft = [u \in Users |-> FinishedDraft(u, c[u])]
  /\ sheet = UsedSheet
  /\ WatcherInit

NextRecon ==
  \/ \E u \in Users : \E store \in {"ok", "fail_open", "fail_append"} :
       on_consent(u, D_consent, store)
  \/ Manager
  \/ Watcher

SpecRecon == InitRecon /\ [][NextRecon]_vars

\* status_watcher runs again and again: asyncio resumes the task after every
\* sleep, and every call it makes returns or raises
\* (every step of Watcher changes wpc, wday or wrow)
watcherPos == <<wpc, wday, wrow>>

SpecReconLive == SpecRecon /\ WF_watcherPos(Watcher)

(***************************************************************************)
(* What the properties below speak of.                                     *)
(***************************************************************************)
\* the cells of a row, as they stand in the spreadsheet
IsDataRow(rec) == sheet[rec[1]] # NoTab /\ rec[2] <= Len(sheet[rec[1]])

Marker(rec) ==
  IF IsDataRow(rec) THEN CellOf(sheet[rec[1]], rec[2], COL_NotifiedAt)
  ELSE EmptyText

StatusOf(rec) ==
  IF IsDataRow(rec) THEN Lower(CellOf(sheet[rec[1]], rec[2], COL_Status))
  ELSE EmptyText

ChatOf(rec) ==
  IF IsDataRow(rec) THEN CellOf(sheet[rec[1]], rec[2], COL_TelegramChatId)
  ELSE EmptyText

Terminal == {STATUS_APPROVED, STATUS_REJECTED}

\* this step is a step of status_watcher
WatcherStepped == watcherPos' # watcherPos

\* this step is status_watcher's turn for row rec
RowStep(rec) ==
  /\ WatcherStepped
  /\ wpc = "scanning"
  /\ wrow >= 2
  /\ rec = <<DATES[wday], wrow>>

\* the cells of the row status_watcher is about to process, as it read them
ReadCell(col_name) == CellOf(values, wrow, col_name)

\* C1 (as claimed): no row ever has more than one decision message delivered
\* for it, whatever sends and writes of NotifiedAt fail.  (The second half of
\* the claim, exactly one after a cycle without failures, is not what fails.)
C1_AtMostOneDelivery == \A rec \in Rows : Len(delivered[rec]) <= 1

\* C2 (as claimed): NotifiedAt of a row is non-empty exactly when a decision
\* message was delivered for the row.
C2_MarkerIffDelivered ==
  \A rec \in Rows : (Marker(rec) # EmptyText) <=> (delivered[rec] # <<>>)

\* C3: once NotifiedAt of a row is non-empty, no step of status_watcher
\* attempts a send for that row, whatever its status is.
C3_NoSendAfterMarker ==
  [][\A rec \in Rows :
       Marker(rec) # EmptyText => ~(RowStep(rec) /\ wlast'.attempted)]_vars

\* a marked row was visited again and passed over, although the manager has
\* changed its decision since the message went out
C3_Witness ==
  \E rec \in Rows :
    /\ Marker(rec) # EmptyText
    /\ wlast.kind = "row" /\ wlast.row = rec /\ ~wlast.attempted
    /\ Len(delivered[rec]) = 1
    /\ StatusOf(rec) \in Terminal
    /\ StatusOf(rec) # delivered[rec][1].msg

C5_FailedSendRetried ==
  [][\A rec \in Rows :
       /\ (RowStep(rec) /\ wlast'.attempted /\ ~wlast'.sent)
            => Marker(rec)' = EmptyText
       /\ ( /\ rec \in wfailed
            /\ RowStep(rec)
            /\ Lower(ReadCell(COL_Status)) \in Terminal
            /\ ReadCell(COL_NotifiedAt) = EmptyText
            /\ ReadCell(COL_TelegramChatId) # EmptyText )
            => wlast'.attempted]_vars

\* a row whose delivery had failed was attempted again, and this time the
\* message went out and NotifiedAt was written
C5_Witness ==
  \E rec \in wfailed :
    /\ wlast.kind = "row" /\ wlast.row = rec
    /\ wlast.attempted /\ wlast.sent /\ wlast.wrote
    /\ Marker(rec) # EmptyText

\* C6 (as claimed): when reading a day's tab fails and days remain, the cycle
\* goes on to the next day.
C6_ReadFailureKeepsScanning ==
  [][(WatcherStepped /\ wlast'.kind = "read_fail" /\ wday < Len(DATES))
       => (wpc' = "scanning" /\ wday' = wday + 1)]_vars

\* C7: status_watcher is scanning or sleeping, never anything else, and
\* whatever fails it goes from scanning to sleeping and from sleeping to
\* scanning, for ever.
C7_LoopAlternates ==
  /\ [](wpc \in {"scanning", "sleeping"})
  /\ (wpc = "scanning") ~> (wpc = "sleeping")
  /\ (wpc = "sleeping") ~> (wpc = "scanning")

\* a new cycle has begun after a cycle in which a delivery failed
C7_Witness ==
  /\ wpc = "scanning"
  /\ wlast.kind = "wake"
  /\ wfailed # {}

\* C8 (as claimed): a cycle without failures notifies every row the bot wrote
\* that stood approved and unmarked when the cycle began: at the end of the
\* cycle NotifiedAt is set and the last message delivered for the row is the
\* approval, sent to the chat id of the row.
C8_ApprovedRowNotifiedByNextCycle ==
  [][(wpc = "scanning" /\ wpc' = "sleeping")
       => \A rec \in wdue' :
            /\ Marker(rec)' # EmptyText
            /\ delivered'[rec] # <<>>
            /\ delivered'[rec][Len(delivered'[rec])] =
                 [to |-> TextToInt(ChatOf(rec)), msg |-> STATUS_APPROVED]]_vars

\* the same, for the rows of the tabs of DATES only
ApprovedRowOfOfferedDayNotified ==
  [][(wpc = "scanning" /\ wpc' = "sleeping")
       => \A rec \in wdue' :
            (\E i \in 1..Len(DATES) : rec[1] = DATES[i])
              => /\ Marker(rec)' # EmptyText
                 /\ delivered'[rec] # <<>>
                 /\ delivered'[rec][Len(delivered'[rec])] =
                      [to |-> TextToInt(ChatOf(rec)), msg |-> STATUS_APPROVED]]_vars

(***************************************************************************)
(* The interview: what the specification calls a valid answer of a step,   *)
(* and what it says the answer adds to the draft.                          *)
(***************************************************************************)
IsImage(m) ==
  \/ m.kind = "photo"
  \/ m.kind = "document" /\ StartsWith(m.mime, <<"i","m","a","g","e","/">>)

\* the message is an answer the step accepts
ValidMessage(form, m) ==
  CASE form \in {"model_name", "city", "guardian_name"} ->
         m.kind = "text" /\ is_en(m.text)
    [] form = "dob" -> m.kind = "text" /\ is_dob_ua(Strip(m.text))
    [] form = "residence_address" ->
         m.kind = "text" /\ (is_next_ua(m.text) \/ is_en(m.text))
    [] form = "phone" -> m.kind = "text" /\ is_phone(Strip(m.text))
    [] form = "email" -> m.kind = "text" /\ is_email(Strip(m.text))
    [] form = "photo" -> IsImage(m)
    [] OTHER -> FALSE

\* the button is one of the options the step offers
ValidCallback(form, data) ==
  CASE form = "shoot_date" -> \E i \in 1..Len(DATES) : data = P_date \o DATES[i]
    [] form = "shoot_time" -> \E i \in 1..Len(TIMES) : data = P_time \o TIMES[i]
    [] form = "minor" -> data \in {P_minor \o T_yes, P_minor \o T_no}
    [] form = "consent" -> data = D_consent
    [] OTHER -> FALSE

\* the buttons that begin a new application
IsRestartButton(data) == data = D_begin \/ StartsWith(data, P_more)

\* dd/mm/yyyy as mm/dd/yyyy
SwapDayMonth(t) ==
  <<t[4], t[5], "/", t[1], t[2], "/", t[7], t[8], t[9], t[10]>>

\* the fields the answer adds, and the step that follows
ExpectedOfMessage(form, m) ==
  CASE form = "model_name" -> [kv |-> [model_name |-> Strip(m.text)], next |-> "dob"]
    [] form = "dob" ->
         [kv |-> [dob |-> SwapDayMonth(Strip(m.text))], next |-> "residence_address"]
    [] form = "residence_address" ->
         IF is_next_ua(m.text)
         THEN [kv |-> [residence_address |-> EmptyText, city |-> EmptyText],
               next |-> "phone"]
         ELSE [kv |-> [residence_address |-> Strip(m.text)], next |-> "city"]
    [] form = "city" -> [kv |-> [city |-> Strip(m.text)], next |-> "phone"]
    [] form = "phone" -> [kv |-> [phone |-> Strip(m.text)], next |-> "email"]
    [] form = "email" -> [kv |-> [email |-> Strip(m.text)], next |-> "minor"]
    [] form = "guardian_name" ->
         [kv |-> [guardian_name |-> Strip(m.text)], next |-> "photo"]
    [] form = "photo" -> [kv |-> [photo_drive_url |-> DriveLink], next |-> "consent"]

ExpectedOfCallback(form, data) ==
  CASE form = "shoot_date" ->
         [kv |-> [shoot_date |-> SubSeq(data, 6, Len(data))], next |-> "shoot_time"]
    [] form = "shoot_time" ->
         [kv |-> [shoot_time |-> SubSeq(data, 6, Len(data))], next |-> "model_name"]
    [] form = "minor" ->
         IF data = P_minor \o T_yes
         THEN [kv |-> [minor |-> TRUE], next |-> "guardian_name"]
         ELSE [kv |-> [minor |-> FALSE, guardian_name |-> EmptyText],
               next |-> "photo"]

\* this step adds the fields of e.kv, new to the draft, changes no other
\* field, and moves u to e.next
Gains(u, e) ==
  /\ DOMAIN e.kv \cap DOMAIN draft[u] = {}
  /\ DOMAIN draft'[u] = DOMAIN draft[u] \cup DOMAIN e.kv
  /\ \A k \in DOMAIN draft[u] : draft'[u][k] = draft[u][k]
  /\ \A k \in DOMAIN e.kv : draft'[u][k] = e.kv[k]
  /\ step'[u] = e.next

\* the name is already in the tab of the chosen day
NameTaken(u, m) ==
  /\ "shoot_date" \in DOMAIN draft[u]
  /\ model_exists_in_tab(ensure_day_tab_and_headers(sheet[draft[u]["shoot_date"]]),
                         Strip(m.text))

\* the handler of the step takes the message, and nothing outside the
\* answer stops it: the name is not taken (or the store cannot be asked),
\* the photo is uploaded
Accepts(u, m) ==
  IF step[u] = "model_name"
  THEN \E store \in Outcomes :
         on_model_name(u, m, store) /\ (store = "fail" \/ ~NameTaken(u, m))
  ELSE IF step[u] = "photo" THEN on_photo(u, m, "ok")
  ELSE DeliverMessage(u, m)

\* C9 (as claimed): at every step, an input that is not a valid answer of the
\* step (a text the validator of the step rejects, a message or a button of
\* the wrong kind, a button that is not an option of the step) leaves the
\* step and the draft as they are.  The start command and the buttons that
\* begin a new application are set aside.
C9_InvalidInputChangesNothing ==
  [][\A u \in Users :
       step[u] \in Forms =>
         /\ \A m \in MessageInputs :
              ( /\ ~IsStartCommand(m)
                /\ ~ValidMessage(step[u], m)
                /\ DeliverMessage(u, m) )
                => UNCHANGED <<step, draft>>
         /\ \A data \in CallbackInputs :
              ( /\ ~IsRestartButton(data)
                /\ ~ValidCallback(step[u], data)
                /\ DeliverCallback(u, data) )
                => UNCHANGED <<step, draft>>]_vars

\* the same, for messages only (texts, photos, documents)
InvalidMessageChangesNothing ==
  [][\A u \in Users :
       step[u] \in Forms =>
         \A m \in MessageInputs :
           ( /\ ~IsStartCommand(m)
             /\ ~ValidMessage(step[u], m)
             /\ DeliverMessage(u, m) )
             => UNCHANGED <<step, draft>>]_vars

\* C10: at every step before consent, a valid answer adds to the draft the
\* field of the step, new to the draft, and nothing else, and moves to the
\* next step of the sequence: the skip word at residence_address adds an
\* empty address and an empty city and goes to phone, and minor "no" adds an
\* empty guardian name and goes to photo.
C10_ValidInputAddsFieldAndAdvances ==
  [][\A u \in Users :
       /\ \A m \in MessageInputs :
            ( /\ step[u] \in Forms
              /\ ~IsStartCommand(m)
              /\ ValidMessage(step[u], m)
              /\ Accepts(u, m) )
              => Gains(u, ExpectedOfMessage(step[u], m))
       /\ \A data \in CallbackInputs :
            ( /\ step[u] \in {"shoot_date", "shoot_time", "minor"}
              /\ ValidCallback(step[u], data)
              /\ DeliverCallback(u, data) )
              => Gains(u, ExpectedOfCallback(step[u], data))]_vars

\* a submitter who skipped the address and is not a minor has reached
\* consent, with every field of the interview in the draft
C10_Witness ==
  \E u \in Users :
    /\ step[u] = "consent"
    /\ DOMAIN draft[u] =
         {"shoot_date", "shoot_time", "model_name", "dob", "residence_address",
          "city", "phone", "email", "minor", "guardian_name", "photo_drive_url"}
    /\ draft[u]["residence_address"] = EmptyText
    /\ draft[u]["city"] = EmptyText
    /\ draft[u]["minor"] = FALSE
    /\ draft[u]["guardian_name"] = EmptyText

\* the message is a valid answer of the step before, and the draft holds
\* what that answer adds: the answer that brought u to this step, delivered
\* once more
MessageLedHere(u, m) ==
  \E form \in Forms :
    /\ ValidMessage(form, m)
    /\ ExpectedOfMessage(form, m).next = step[u]
    /\ \A k \in DOMAIN ExpectedOfMessage(form, m).kv :
         /\ k \in DOMAIN draft[u]
         /\ draft[u][k] = ExpectedOfMessage(form, m).kv[k]

CallbackLedHere(u, data) ==
  \E form \in {"shoot_date", "shoot_time", "minor"} :
    /\ ValidCallback(form, data)
    /\ ExpectedOfCallback(form, data).next = step[u]
    /\ \A k \in DOMAIN ExpectedOfCallback(form, data).kv :
         /\ k \in DOMAIN draft[u]
         /\ draft[u][k] = ExpectedOfCallback(form, data).kv[k]

\* C11 (as claimed): when the valid answer that brought a submitter to a
\* step is delivered a second time, the second delivery leaves the step and
\* the draft as they are: one transition and one field for the two
\* deliveries.
C11_SecondDeliveryChangesNothing ==
  [][\A u \in Users :
       /\ \A m \in MessageInputs :
            ( /\ step[u] \in Forms
              /\ ~IsStartCommand(m)
              /\ MessageLedHere(u, m)
              /\ DeliverMessage(u, m) )
              => UNCHANGED <<step, draft>>
       /\ \A data \in CallbackInputs :
            ( /\ step[u] \in Forms
              /\ CallbackLedHere(u, data)
              /\ DeliverCallback(u, data) )
              => UNCHANGED <<step, draft>>]_vars

\* the fields of the draft, in the order of the steps that write them, and
\* the step that writes each
FieldOrder ==
  <<"shoot_date", "shoot_time", "model_name", "dob", "residence_address",
    "city", "phone", "email", "minor", "guardian_name", "photo_drive_url">>

StepOrder ==
  <<"shoot_date", "shoot_time", "model_name", "dob", "residence_address",
    "city", "phone", "email", "minor", "guardian_name", "photo", "consent">>

\* the fields a step may leave out: the address and the city (the skip
\* word), the guardian (not a minor)
OptionalFields == {"residence_address", "city", "guardian_name"}

\* every required field of the steps before position n is in the draft of u
EarlierRequiredPresent(u, n) ==
  \A k \in 1..(n - 1) :
    k <= Len(FieldOrder) /\ FieldOrder[k] \notin OptionalFields
      => FieldOrder[k] \in DOMAIN draft[u]

\* C12 (as claimed): a field of the draft is present if and only if every
\* required field of the steps before it is present.
C12_FieldPresentIffEarlierPresent ==
  \A u \in Users : \A n \in 1..Len(FieldOrder) :
    FieldOrder[n] \in DOMAIN draft[u] <=> EarlierRequiredPresent(u, n)

\* C12 (amended): a field of the draft is present only if every required
\* field of the steps before it is present, and a submitter is at a step
\* only if every required field of the steps before that step is present:
\* no step is skipped, no later answer is taken before an earlier one.  The
\* draft holds nothing but these fields.
C12_FieldsInOrder ==
  \A u \in Users :
    /\ DOMAIN draft[u] \subseteq {FieldOrder[n] : n \in 1..Len(FieldOrder)}
    /\ \A n \in 1..Len(FieldOrder) :
         FieldOrder[n] \in DOMAIN draft[u] => EarlierRequiredPresent(u, n)
    /\ \A n \in 1..Len(StepOrder) :
         step[u] = StepOrder[n] => EarlierRequiredPresent(u, n)

\* a submitter who is a minor has named the guardian and is at the photo
\* step, with every field of the ten steps before in the draft
C12_Witness ==
  \E u \in Users :
    /\ step[u] = "photo"
    /\ DOMAIN draft[u] = {FieldOrder[n] : n \in 1..10}
    /\ draft[u]["minor"] = TRUE
    /\ draft[u]["guardian_name"] # EmptyText
    /\ draft[u]["residence_address"] # EmptyText

\* C13: at the model_name step, when the duplicate check finds in the tab of
\* the chosen day a row whose normalized name is the normalized name of the
\* answer, the step stays model_name and the draft is left as it is: the
\* name is not written, the date and the time are kept.
C13_TakenNameHoldsStep ==
  [][\A u \in Users : \A m \in MessageInputs :
       (/\ step[u] = "model_name"
        /\ m.kind = "text"
        /\ NameTaken(u, m)
        /\ on_model_name(u, m, "ok"))
         => /\ step'[u] = "model_name"
            /\ draft'[u] = draft[u]
            /\ "model_name" \notin DOMAIN draft'[u]
            /\ {"shoot_date", "shoot_time"} \subseteq DOMAIN draft'[u]]_vars

\* a submitter is asked for the name again: the day and the time are chosen,
\* the tab of the day has been opened by the check (its header is caught
\* up), and a name the tab holds is at hand
C13_Witness ==
  \E u \in Users :
    /\ step[u] = "model_name"
    /\ DOMAIN draft[u] = {"shoot_date", "shoot_time"}
    /\ draft[u]["shoot_date"] = DATES[1]
    /\ sheet[DATES[1]] # NoTab
    /\ sheet[DATES[1]][1] = HEADER \/ Len(sheet[DATES[1]][1]) > Len(OLD_HEADER)
    /\ Len(sheet[DATES[1]]) = Len(UsedSheet[DATES[1]])
    /\ \E m \in MessagesAt("model_name") : m.kind = "text" /\ NameTaken(u, m)

\* the words of a name: its maximal runs of characters that are not
\* whitespace, in lower case
RECURSIVE Words(_)
Words(s) ==
  IF s = <<>> THEN <<>>
  ELSE IF Head(s) \in Whitespace THEN Words(Tail(s))
  ELSE LET ends == {k \in 1..Len(s) :
                      /\ \A j \in 1..k : s[j] \notin Whitespace
                      /\ k = Len(s) \/ s[k + 1] \in Whitespace}
           k == CHOOSE e \in ends : TRUE
       IN <<Lower(SubSeq(s, 1, k))>> \o Words(SubSeq(s, k + 1, Len(s)))

\* two names that differ in spacing and case only
SameName(a, b) == Words(a) = Words(b)

T_ANNA == <<" ","A","N","N","A"," ","I","V","A","N","O","V","A"," ">>

\* names the check is asked about
GuardCandidates == {T_Anna, T_anna, T_ANNA, T_AnnaI, T_Olha, T_Email}

\* the tab of the day as the handlers hand it to the check
TabChecked(day) == ensure_day_tab_and_headers(sheet[day])

\* C14: whenever on_model_name runs the check, model_exists_in_tab answers
\* true exactly when a row of the tab has a name that differs from the
\* candidate in spacing and case only ("anna ivanova" with irregular spacing
\* is "Anna Ivanova"; "Anna I. Ivanova" is not), and the handler leaves every
\* row of every tab as it was and adds none.
C14_GuardMatchesNormalizedNames ==
  [][\A u \in Users : \A m \in MessageInputs :
       (step[u] = "model_name" /\ m.kind = "text" /\ on_model_name(u, m, "ok"))
         => /\ SameName(T_Anna, T_anna) /\ ~SameName(T_Anna, T_AnnaI)
            /\ \A day \in TabNames : \E g \in {TabChecked(day)} :
                 /\ \A cand \in GuardCandidates \cup {m.text} :
                      model_exists_in_tab(g, cand)
                        <=> \E r \in 2..Len(g) :
                              SameName(CellOf(g, r, COL_ModelName), cand)
                 /\ \/ sheet'[day] = sheet[day]
                    \/ /\ sheet'[day] = g
                       /\ \A r \in 2..Len(g) :
                            sheet[day] # NoTab /\ g[r] = sheet[day][r]
    ]_vars

\* the tab of the first day holds "Anna Ivanova" and, committed by the bot
\* after the check let it pass, "Anna I. Ivanova"; "anna   ivanova" is taken
C14_Witness ==
  /\ sheet[DATES[1]] # NoTab
  /\ \E r \in 2..Len(sheet[DATES[1]]) :
       CellOf(sheet[DATES[1]], r, COL_ModelName) = T_Anna
  /\ \E r \in 2..Len(sheet[DATES[1]]) :
       /\ CellOf(sheet[DATES[1]], r, COL_ModelName) = T_AnnaI
       /\ CellOf(sheet[DATES[1]], r, COL_Status) = STATUS_PENDING
  /\ model_exists_in_tab(sheet[DATES[1]], T_anna)
  /\ ~model_exists_in_tab(sheet[DATES[1]], T_Olha \o <<" ","I","I">>)

\* on_consent of u runs to its end: no required field is missing, the date
\* splits, the store answers, the name is not in the tab of the day
Commits(u) ==
  /\ step[u] = "consent"
  /\ ~missing_required(draft[u],
        {"shoot_date", "model_name", "dob", "phone", "email", "photo_drive_url"})
  /\ CanSplitDate(draft[u]["shoot_date"])
  /\ ~model_exists_in_tab(TabChecked(draft[u]["shoot_date"]), draft[u]["model_name"])
  /\ on_consent(u, D_consent, "ok")

DraftComplete(u) ==
  ~missing_required(draft[u],
      {"shoot_date", "model_name", "dob", "phone", "email", "photo_drive_url"})

\* the store fails u's commit: opening the tab raises, or the name is free
\* and ws.append_row raises
CommitFails(u, store) ==
  /\ step[u] = "consent"
  /\ DraftComplete(u)
  /\ \/ store = "fail_open"
     \/ /\ store = "fail_append"
        /\ CanSplitDate(draft[u]["shoot_date"])
        /\ ~model_exists_in_tab(TabChecked(draft[u]["shoot_date"]), draft[u]["model_name"])
  /\ on_consent(u, D_consent, store)

\* C16: when the store fails the commit at the consent step, the session is
\* not cleared: the step stays consent, the draft is as it was and complete,
\* no row is written, so that the next press of consent commits this draft.
C16_FailedCommitKeepsSession ==
  [][\A u \in Users : \A store \in {"fail_open", "fail_append"} :
       CommitFails(u, store) =>
         /\ step'[u] = "consent"
         /\ draft'[u] = draft[u]
         /\ \A d \in TabNames :
              \/ sheet'[d] = sheet[d]
              \/ sheet'[d] = TabChecked(d) /\ d = draft[u]["shoot_date"]
         /\ \A d \in TabNames : sheet[d] # NoTab => Len(sheet'[d]) = Len(sheet[d])]_vars

\* a submitter waits at the consent step with a complete draft whose name was
\* taken without asking the store; the tab of the day was made by the commit
\* that then failed, and holds the header only
C16_Witness ==
  \E u \in Users :
    /\ step[u] = "consent"
    /\ DraftComplete(u)
    /\ draft[u]["shoot_date"] = DATES[2]
    /\ draft[u]["model_name"] = T_anna
    /\ sheet[DATES[2]] = <<HEADER>>
    /\ sheet[DATES[1]] = UsedSheet[DATES[1]]

\* C17: at the photo step an upload that fails leaves the step at photo and
\* the draft as it was, without photo_drive_url; and photo_drive_url comes
\* into a draft by an upload that succeeded only, as the link of that upload.
C17_PhotoLinkOnlyAfterUpload ==
  [][\A u \in Users :
       /\ \A m \in MessageInputs :
            (/\ step[u] = "photo"
             /\ IsImage(m)
             /\ ~missing_required(draft[u],
                   {"shoot_date", "shoot_time", "model_name", "phone"})
             /\ on_photo(u, m, "fail"))
              => /\ step'[u] = "photo"
                 /\ draft'[u] = draft[u]
                 /\ "photo_drive_url" \notin DOMAIN draft'[u]
       /\ ("photo_drive_url" \in DOMAIN draft'[u]
             /\ "photo_drive_url" \notin DOMAIN draft[u])
            => /\ step[u] = "photo"
               /\ \E m \in MessageInputs : IsImage(m) /\ on_photo(u, m, "ok")
               /\ draft'[u]["photo_drive_url"] = DriveLink
       /\ "photo_drive_url" \in DOMAIN draft[u] => draft[u]["photo_drive_url"] = DriveLink
    ]_vars

\* a minor's application has its photo: the upload succeeded, the link is in
\* the draft and the submitter is asked for consent
C17_Witness ==
  \E u \in Users :
    /\ step[u] = "consent"
    /\ draft[u]["photo_drive_url"] = DriveLink
    /\ draft[u]["minor"] = TRUE
    /\ draft[u]["shoot_date"] = DATES[2]

\* field k of the draft of u gets its value in this step from the input
\* delivered in this step
EnteredNow(u, k) ==
  IF k = "minor"
  THEN \E data \in CallbackInputs :
         StartsWith(data, P_minor) /\ DeliverCallback(u, data)
  ELSE \/ \E m \in MessageInputs :
            /\ DeliverMessage(u, m)
            /\ \/ draft'[u][k] = EmptyText
               \/ m.kind # "text" /\ draft'[u][k] = DriveLink
               \/ m.kind = "text" /\ k # "dob" /\ draft'[u][k] = Strip(m.text)
               \/ /\ m.kind = "text" /\ k = "dob" /\ is_dob_ua(Strip(m.text))
                  /\ draft'[u][k] = SwapDayMonth(Strip(m.text))
       \/ \E data \in CallbackInputs :
            /\ DeliverCallback(u, data)
            /\ draft'[u][k] = AfterColon(data) \/ draft'[u][k] = EmptyText

\* C18: the start command, at any step, empties the draft of the submitter and
\* resets the step.  Nothing of the emptied draft comes back: a field is in
\* a draft with the value an input gave it since, and the row a commit
\* writes is made of the draft of that moment.
C18_StartDiscardsDraft ==
  [][\A u \in Users :
       /\ \A m \in MessageInputs :
            (IsStartCommand(m) /\ DeliverMessage(u, m))
              => step'[u] = "none" /\ draft'[u] = EmptyData
       /\ \A k \in DOMAIN draft'[u] :
            (k \notin DOMAIN draft[u] \/ draft'[u][k] # draft[u][k])
              => EnteredNow(u, k)
       /\ Commits(u) =>
            \E day \in {draft[u]["shoot_date"]} :
              sheet'[day][Len(sheet'[day])] = ConsentRow(u, draft[u])
    ]_vars

\* a submitter chose the second day and gave a name, which made the tab of
\* that day; the draft was discarded, and the application the submitter then
\* committed is a row of the first day
C18_Witness ==
  \E u \in Users :
    /\ step[u] = "none" /\ draft[u] = EmptyData
    /\ sheet[DATES[2]] = <<HEADER>>
    /\ sheet[DATES[1]] # NoTab
    /\ Len(sheet[DATES[1]]) = Len(UsedSheet[DATES[1]]) + 1
    /\ ChatOf(<<DATES[1], Len(sheet[DATES[1]])>>) = IntToText(ChatIdOf(u))

\* the submitter asks for a new beginning: the start command, the button
\* under the greeting, or an answer to "submit another person?"
FreshStart(u) ==
  \/ \E m \in MessageInputs : IsStartCommand(m) /\ cmd_start(u, m)
  \/ on_begin(u, D_begin)
  \/ \E data \in CallbackInputs : StartsWith(data, P_more) /\ on_more(u, data)

\* C19 (as claimed): the session of a submitter is cleared by a commit that
\* succeeded or by the submitter asking for a new beginning, and by nothing
\* else: a name found in the tab at commit time, or a required field found
\* missing, does not discard the draft.
C19_ClearedOnlyByCommitOrStart ==
  [][\A u \in Users :
       (draft[u] # EmptyData /\ draft'[u] = EmptyData)
         => Commits(u) \/ FreshStart(u)]_vars

\* the cell of column c in row r of grid g; a cell the row does not reach
\* is empty
CellAt(g, r, c) == IF c <= Len(g[r]) THEN g[r][c] ELSE EmptyText

\* this step is a step of the bot, not of the manager
BotStepped == WatcherStepped \/ \E u \in Users : Intake(u)

\* C20: a step of the bot leaves the Status of every row the sheet holds as
\* it is; a row the step adds has Status pending; a step of an intake
\* handler leaves every cell of every row the sheet holds as it is, a step of
\* status_watcher every cell but NotifiedAt.
C20_BotWritesStatusAtCreationOnly ==
  [][(BotStepped /\ sheet' # sheet) =>
       \A rec \in Rows :
         \E g \in {sheet[rec[1]]}, h \in {sheet'[rec[1]]} :
           \/ g = h
           \/ /\ IsDataRow(rec)
              /\ h # NoTab /\ rec[2] <= Len(h)
              /\ CellOf(h, rec[2], COL_Status) = CellOf(g, rec[2], COL_Status)
              /\ IF WatcherStepped
                 THEN \A c \in 1..Len(h[1]) :
                        c # find_col_index(h[1], COL_NotifiedAt)
                          => CellAt(h, rec[2], c) = CellAt(g, rec[2], c)
                 ELSE h[rec[2]] = g[rec[2]]
           \/ /\ ~IsDataRow(rec)
              /\ (h # NoTab /\ rec[2] <= Len(h))
                   => CellOf(h, rec[2], COL_Status) = STATUS_PENDING
    ]_vars

\* the manager rejected an application the bot had recorded; status_watcher
\* told the submitter and stamped NotifiedAt, and the row still says rejected
C20_Witness ==
  \E rec \in Rows : \E u \in Users :
    /\ IsDataRow(rec)
    /\ ChatOf(rec) = IntToText(ChatIdOf(u))
    /\ StatusOf(rec) = STATUS_REJECTED
    /\ Marker(rec) = utc_now_iso
    /\ Len(delivered[rec]) = 1
    /\ delivered[rec][1].msg = STATUS_REJECTED

\* C21 (as claimed): when the manager changes the decision of a row after
\* status_watcher has read the tab and before NotifiedAt is written, the
\* newer decision wins: the message that goes out with the marker is the
\* decision the row holds at that moment.  (Once the marker is set no later
\* cycle sends for the row, so this message is the one communicated.)
C21_NewerStatusWins ==
  [][\A rec \in Rows :
       (/\ RowStep(rec)
        /\ StatusOf(rec) \in Terminal
        /\ Marker(rec) = EmptyText
        /\ sheet'[rec[1]] # sheet[rec[1]]
        /\ Marker(rec)' # EmptyText)
         => /\ delivered'[rec] # <<>>
            /\ delivered'[rec][Len(delivered'[rec])].msg = StatusOf(rec)]_vars

\* C22 (as claimed): whatever buttons are pressed, the day in a draft is one
\* of DATES and the time one of TIMES.
C22_ChosenDateAndTimeAreOffered ==
  \A u \in Users :
    /\ "shoot_date" \in DOMAIN draft[u]
         => \E i \in 1..Len(DATES) : draft[u]["shoot_date"] = DATES[i]
    /\ "shoot_time" \in DOMAIN draft[u]
         => \E i \in 1..Len(TIMES) : draft[u]["shoot_time"] = TIMES[i]

(***************************************************************************)
(* The commits alone: every submitter has reached the consent step, with   *)
(* any of a few names and any day in the draft (whatever the name step let *)
(* through), on a used or a new spreadsheet; they press consent in any     *)
(* order.  Nobody edits the sheet.                                         *)
(***************************************************************************)
\* a spreadsheet without tabs
NewSheet == [d \in TabNames |-> NoTab]

\* the names in the drafts
CommitNames == {T_Anna, T_anna, T_AnnaI}

InitCommit ==
  /\ step = [u \in Users |-> "consent"]
  /\ \E c \in [Users -> TabNames] : \E n \in [Users -> CommitNames] :
       draft = [u \in Users |-> [FinishedDraft(u, c[u]) EXCEPT !.model_name = n[u]]]
  /\ sheet \in {UsedSheet, NewSheet}
  /\ WatcherInit

NextCommit ==
  \E u \in Users : \E store \in {"ok", "fail_open", "fail_append"} :
    on_consent(u, D_consent, store)

SpecCommit == InitCommit /\ [][NextCommit]_vars

\* C23: with the bot alone writing rows, no tab holds two rows whose names
\* have the same normalization, in whatever order the submitters press
\* consent: on_consent checks the name again and appends nothing when the
\* tab holds it.
C23_NoTwoRowsWithOneName ==
  \A day \in TabNames :
    sheet[day] # NoTab =>
      \A r1 \in 2..Len(sheet[day]) : \A r2 \in (r1 + 1)..Len(sheet[day]) :
        normalize_name_key(CellOf(sheet[day], r1, COL_ModelName))
          # normalize_name_key(CellOf(sheet[day], r2, COL_ModelName))

\* every submitter has pressed consent with the store answering, all for the
\* second day and under names that differ in spacing and case at most: the
\* tab holds the application of one of them
C23_Witness ==
  /\ \A u \in Users : step[u] = "none" /\ draft[u] = EmptyData
  /\ \A d \in TabNames \ {DATES[2]} : sheet[d] = NoTab
  /\ sheet[DATES[2]] # NoTab
  /\ Len(sheet[DATES[2]]) = 2
  /\ \E u \in Users : ChatOf(<<DATES[2], 2>>) = IntToText(ChatIdOf(u))

(***************************************************************************)
(* The reconciliation of a spreadsheet the bot fills: the submitters are   *)
(* at the consent step with finished Drafts for the first day, the tab     *)
(* is made by their commits; the manager decides, status_watcher runs.     *)
(***************************************************************************)
InitShared ==
  /\ step = [u \in Users |-> "consent"]
  /\ draft = [u \in Users |-> FinishedDraft(u, DATES[1])]
  /\ sheet = NewSheet
  /\ WatcherInit

SpecShared == InitShared /\ [][NextRecon]_vars

\* C24: when a step of status_watcher changes NotifiedAt of a row, it is the
\* turn of that row, and the message of this step went to the chat id the
\* row holds in the sheet, with the decision read for the row; no other row
\* is written or sent for.  This holds as well when rows were appended to the
\* tab after status_watcher read it.
C24_MarkerOnTheRowNotified ==
  [][\A rec \in Rows :
       (/\ WatcherStepped
        /\ sheet'[rec[1]] # sheet[rec[1]]
        /\ IsDataRow(rec)
        /\ Marker(rec)' # Marker(rec))
         => /\ RowStep(rec)
            /\ delivered'[rec] =
                 Append(delivered[rec],
                        [to |-> TextToInt(ChatOf(rec)),
                         msg |-> Lower(ReadCell(COL_Status))])
            /\ \A other \in Rows \ {rec} :
                 /\ delivered'[other] = delivered[other]
                 /\ (IsDataRow(other) /\ other[1] = rec[1])
                      => sheet'[other[1]][other[2]] = sheet[other[1]][other[2]]
                 /\ other[1] # rec[1] => sheet'[other[1]] = sheet[other[1]]]_vars

\* status_watcher has sent the decision of a row and stamped its NotifiedAt;
\* the tab holds a row that was appended after status_watcher read it, and
\* that row is unmarked
C24_Witness ==
  \E rec \in Rows :
    /\ wlast.kind = "row" /\ wlast.row = rec /\ wlast.sent /\ wlast.wrote
    /\ Marker(rec) # EmptyText
    /\ Len(delivered[rec]) = 1
    /\ delivered[rec][1].to = TextToInt(ChatOf(rec))
    /\ Len(sheet[rec[1]]) > Len(values)
    /\ Len(sheet[rec[1]]) > rec[2]
    /\ Marker(<<rec[1], Len(sheet[rec[1]])>>) = EmptyText

\* this step takes the name of m without a check
AcceptedUnchecked(u, m) ==
  /\ step'[u] = "dob"
  /\ draft'[u] = update_data(draft[u], [model_name |-> Strip(m.text)])
  /\ sheet' = sheet

\* C25: at the model_name step, when the store cannot be reached or the
\* check raises, a name that is_en accepts is taken as if the tab did not
\* hold it: it is written to the draft, stripped, the step goes on to dob,
\* the rest of the draft and the sheet are as they were.  So it is for a
\* name the tab of the day holds.
C25_NameAcceptedWhenCheckFails ==
  \A u \in Users : \A m \in MessagesAt("model_name") :
    (/\ step[u] = "model_name"
     /\ m.kind = "text"
     /\ ~IsStartCommand(m)
     /\ is_en(m.text))
      => /\ ENABLED (/\ on_model_name(u, m, "fail")
                     /\ AcceptedUnchecked(u, m))
         /\ ~ENABLED (/\ on_model_name(u, m, "fail")
                      /\ ~AcceptedUnchecked(u, m))

\* a submitter is asked for the date of birth with a name in the draft that
\* the tab of the chosen day holds: the check did not run
C25_Witness ==
  \E u \in Users :
    /\ step[u] = "dob"
    /\ draft[u]["shoot_date"] = DATES[1]
    /\ draft[u]["model_name"] = T_anna
    /\ sheet[DATES[1]] = UsedSheet[DATES[1]]
    /\ model_exists_in_tab(TabChecked(DATES[1]), draft[u]["model_name"])

=============================================================================
